---- MODULE Spec2Model ----
(***************************************************************************)
(* timedmap: a map whose entries carry an expiry time (timedmap.go) and a  *)
(* Cleaner that calls registered callbacks on every tick (cleaner.go).     *)
(*                                                                         *)
(* Time is a discrete clock `now` (UnixNano scaled down).  Every goroutine *)
(* is a thread with a program counter.  A section that runs under the      *)
(* map's RWMutex and is not interleaved with anything observable is one    *)
(* step; Cleanup holds the write lock over one step per scanned entry, so  *)
(* that Extend's atomic add, which runs outside the lock, can interleave.  *)
(***************************************************************************)
EXTENDS Integers, Sequences, FiniteSets, TLC

\* ----------------------------------------------------------------- bounds
MaxTime == 3
MaxTTL == 2
MaxOps == 3
MaxCallbacks == 2
MaxStops == 2
MaxCleanerOps == 2

\* -------------------------------------------------------------- constants
NoElem == 0
NilVal == 0
ZeroTime == -9

Keys == {"a", "b"}
NoKey == "nokey"
Values == {1, 2}
TTLs == {0, MaxTTL}
Deltas == {-1, 1}
Clients == {"c1", "c2"}
Loops == {"g1", "g2"}
Threads == Clients \cup Loops
None == "none"
Callbacks == {"Cleanup", "fn"}
ElemIds == 1..(Cardinality(Keys) + Cardinality(Clients))

VARIABLES now, container, elems, mtx, th, lastSet, opsLeft,
          tickC, tickerStopped, stopChan, onTickQ, qMutex, panicked, stops

mapVars == <<now, container, elems, mtx, th, lastSet, opsLeft>>
cleanerVars == <<tickC, tickerStopped, stopChan, onTickQ, qMutex, panicked, stops>>
vars == <<now, container, elems, mtx, th, lastSet, opsLeft,
          tickC, tickerStopped, stopChan, onTickQ, qMutex, panicked, stops>>

\* ------------------------------------------------------------ pure helpers

\* timedmap.go:55  time.Now().Add(expiresAfter).UnixNano()
NewExpires_NoTTL(n, ttl) == n
NewExpires(n, ttl) == n + ttl

\* timedmap.go:144  time.Now().UnixNano() > v.Expires()
Expired_AtOrAfter(n, e) == n >= e
Expired(n, e) == n > e

\* timedmap.go:131  now > v.expires
CleanupExpired_Late(n, e) == n > e + 1
CleanupExpired_AtOrAfter(n, e) == n >= e
CleanupExpired(n, e) == n > e

\* timedmap.go:99  atomic.AddInt64(&v.expires, int64(d))
AtomicAdd_Twice(e, d) == e + d + d
AtomicAdd(e, d) == e + d

\* timedmap.go:53  tm.container[key] = &Element{...}
Store_KeepOld(c, k, e) == IF c[k] = NoElem THEN [c EXCEPT ![k] = e] ELSE c
Store(c, k, e) == [c EXCEPT ![k] = e]

\* timedmap.go:91 / 132  delete(tm.container, key)
Delete_All(c, k) == [j \in Keys |-> NoElem]
Delete(c, k) == [c EXCEPT ![k] = NoElem]

\* timedmap.go:109  make(map[interface{}]*Element)
EmptyContainer == [k \in Keys |-> NoElem]

\* timedmap.go:118  len(tm.container)
MapLen_AtMostOne(c) == IF \E k \in Keys : c[k] # NoElem THEN 1 ELSE 0
MapLen(c) == Cardinality({k \in Keys : c[k] # NoElem})

\* timedmap.go:26  the zero Element; also the content of an unallocated cell
nilElement == [Value |-> NilVal, expires |-> 0, ext |-> FALSE]

\* ghost: no Set of the key has completed since its entry was last deleted
NoSet == [val |-> NilVal, exp |-> ZeroTime, over |-> FALSE, sum |-> 0]

\* a thread that is in no call
Fresh == [pc |-> "done", op |-> None, key |-> NoKey, val |-> NilVal, dur |-> 0,
          v |-> NoElem, ok |-> FALSE, tnow |-> ZeroTime, texp |-> ZeroTime,
          dirty |-> FALSE, cnow |-> ZeroTime, scan |-> {}, del |-> {},
          rval |-> NilVal, rexp |-> ZeroTime, rsize |-> 0,
          rng |-> <<>>, log |-> <<>>, seen |-> <<>>, tick |-> ZeroTime,
          spun |-> FALSE]

\* Go's garbage collector: an Element no map slot and no goroutine refers to
\* is gone; its cell is reset so that it can be allocated again.
Referenced(c, t, e) == (\E k \in Keys : c[k] = e) \/ (\E u \in Threads : t[u].v = e)
Collect(c, t, h) == [e \in ElemIds |-> IF Referenced(c, t, e) THEN h[e] ELSE nilElement]
NewElem(c, t) == CHOOSE e \in ElemIds :
                    /\ ~Referenced(c, t, e)
                    /\ \A f \in ElemIds : ~Referenced(c, t, f) => e <= f

\* sync.RWMutex: Lock needs no holder; RLock needs no writer.  Read sections
\* are single steps, so no reader is ever held between two steps.
CanLock(m) == m = None
CanRLock(m) == m = None

\* ghost: a structural write to the keys K happened during the call thread u
\* is in
MarkDirty(t, self, K) == [u \in Threads |->
                             IF u # self /\ t[u].pc # "done" /\ t[u].key \in K
                             THEN [t[u] EXCEPT !.dirty = TRUE] ELSE t[u]]

\* ------------------------------------------------------------------- Init
InitWith(calls) ==
    /\ now = 0
    /\ container = EmptyContainer
    /\ elems = [e \in ElemIds |-> nilElement]
    /\ mtx = None
    /\ th = [t \in Threads |-> IF t \in Loops THEN [Fresh EXCEPT !.pc = "none"] ELSE Fresh]
    /\ lastSet = [k \in Keys |-> NoSet]
    /\ opsLeft = calls
    /\ tickC = 0
    /\ tickerStopped = FALSE
    /\ stopChan = "open"
    /\ onTickQ = <<>>
    /\ qMutex = None
    /\ panicked = FALSE
    /\ stops = 0

Init == InitWith(MaxOps)

\* the wall clock advances
Tick ==
    /\ ~panicked
    /\ now < MaxTime
    /\ now' = now + 1
    /\ UNCHANGED <<container, elems, mtx, th, lastSet, opsLeft>>
    /\ UNCHANGED cleanerVars

\* ------------------------------------------------------- calls of a client
\* A client goroutine that is in no call may make one (the model bounds the
\* number of calls).  A call and its first locked section are one step: a
\* call that has to wait for the lock is a call that is made later.
CanCall(t) == ~panicked /\ t \in Clients /\ th[t].pc = "done" /\ opsLeft > 0

\* timedmap.go:49-57.  lastSet is a ghost: the arguments of the last Set of the
\* key that completed (the value, the time of the call plus the ttl, whether
\* the key held an entry) and the sum of the deltas of the calls of Extend
\* that have returned true for the entry it stored, until the key's entry is
\* deleted.
SetOf(t, keys, vals) ==
    /\ CanCall(t)
    /\ CanLock(mtx)
    /\ \E k \in keys, val \in vals, d \in TTLs :
          LET e == NewElem(container, [th EXCEPT ![t] = Fresh])
              x == NewExpires(now, d)
          IN /\ container' = Store(container, k, e)
             /\ th' = [MarkDirty(th, t, {k}) EXCEPT
                          ![t] = [Fresh EXCEPT !.op = "Set", !.key = k]]
             /\ elems' = Collect(container', th',
                            [elems EXCEPT ![e] = [Value |-> val, expires |-> x,
                                                  ext |-> FALSE]])
             /\ lastSet' = [lastSet EXCEPT ![k] = [val |-> val, exp |-> now + d,
                                                    over |-> container[k] # NoElem,
                                                    sum |-> 0]]
    /\ opsLeft' = opsLeft - 1
    /\ UNCHANGED <<now, mtx>>
    /\ UNCHANGED cleanerVars

Set(t) == SetOf(t, Keys, Values)

\* timedmap.go:89-93  (del is a ghost: the keys whose entries the call deleted)
Remove(t) ==
    /\ CanCall(t)
    /\ CanLock(mtx)
    /\ \E k \in Keys :
          /\ container' = Delete(container, k)
          /\ th' = [MarkDirty(th, t, {k}) EXCEPT
                       ![t] = [Fresh EXCEPT !.op = "Remove", !.key = k,
                                            !.del = {k} \cap {j \in Keys : container[j] # NoElem}]]
          /\ lastSet' = [lastSet EXCEPT ![k] = NoSet]
    /\ elems' = Collect(container', th', elems)
    /\ opsLeft' = opsLeft - 1
    /\ UNCHANGED <<now, mtx>>
    /\ UNCHANGED cleanerVars

\* timedmap.go:105-110, but for the entries that have not expired
Flush_OnlyExpired(t) ==
    /\ CanCall(t)
    /\ CanLock(mtx)
    /\ container' = [k \in Keys |->
                        IF container[k] # NoElem /\ Expired(now, elems[container[k]].expires)
                        THEN NoElem ELSE container[k]]
    /\ th' = [MarkDirty(th, t, Keys) EXCEPT
                 ![t] = [Fresh EXCEPT !.op = "Flush", !.cnow = now,
                                      !.del = {j \in Keys : container[j] # NoElem}]]
    /\ elems' = Collect(container', th', elems)
    /\ lastSet' = [k \in Keys |-> NoSet]
    /\ opsLeft' = opsLeft - 1
    /\ UNCHANGED <<now, mtx>>
    /\ UNCHANGED cleanerVars

\* timedmap.go:105-110  (cnow is a ghost here: the time of the call)
Flush(t) ==
    /\ CanCall(t)
    /\ CanLock(mtx)
    /\ container' = EmptyContainer
    /\ th' = [MarkDirty(th, t, Keys) EXCEPT
                 ![t] = [Fresh EXCEPT !.op = "Flush", !.cnow = now,
                                      !.del = {j \in Keys : container[j] # NoElem}]]
    /\ elems' = Collect(container', th', elems)
    /\ lastSet' = [k \in Keys |-> NoSet]
    /\ opsLeft' = opsLeft - 1
    /\ UNCHANGED <<now, mtx>>
    /\ UNCHANGED cleanerVars

\* timedmap.go:114-119  (cnow is a ghost here: the time of the call)
Size(t) ==
    /\ CanCall(t)
    /\ CanRLock(mtx)
    /\ th' = [th EXCEPT ![t] = [Fresh EXCEPT !.op = "Size", !.cnow = now,
                                                !.rsize = MapLen(container)]]
    /\ elems' = Collect(container, th', elems)
    /\ opsLeft' = opsLeft - 1
    /\ UNCHANGED <<now, container, mtx, lastSet>>
    /\ UNCHANGED cleanerVars

GetOps == {"Get", "GetValue", "GetExpires", "Contains", "Extend"}

\* timedmap.go:139-141  RLock; v, ok := tm.container[key]; RUnlock
\* (called by Get itself and through GetValue, GetExpires, Contains, Extend)
GetLookupOf(t, ops, keys) ==
    /\ CanCall(t)
    /\ CanRLock(mtx)
    /\ \E op \in ops, k \in keys, d \in Deltas :
          /\ op # "Extend" => d = 1
          /\ th' = [th EXCEPT ![t] = [Fresh EXCEPT !.pc = "GetCheck", !.op = op,
                                         !.key = k, !.v = container[k],
                                         !.dur = IF op = "Extend" THEN d ELSE 0,
                                         !.ok = (container[k] # NoElem)]]
    /\ elems' = Collect(container, th', elems)
    /\ opsLeft' = opsLeft - 1
    /\ UNCHANGED <<now, container, mtx, lastSet>>
    /\ UNCHANGED cleanerVars

GetLookup(t) == GetLookupOf(t, GetOps, Keys)

\* timedmap.go:144-148, but a read that finds its entry expired deletes it
GetCheck_Evict(t) ==
    /\ ~panicked
    /\ th[t].pc = "GetCheck"
    /\ LET miss == ~th[t].ok \/ Expired(now, elems[th[t].v].expires)
           op == th[t].op
           r0 == IF th[t].ok
                 THEN [th[t] EXCEPT !.tnow = now, !.texp = elems[th[t].v].expires]
                 ELSE th[t]
           r1 == IF miss THEN [r0 EXCEPT !.ok = FALSE, !.v = NoElem] ELSE r0
           r2 == CASE op = "GetValue" /\ ~miss ->
                        [r1 EXCEPT !.pc = "done", !.rval = elems[th[t].v].Value,
                                   !.v = NoElem]
                   [] op = "GetExpires" /\ ~miss -> [r1 EXCEPT !.pc = "ExpiryTime"]
                   [] op = "Extend" /\ ~miss -> [r1 EXCEPT !.pc = "ExtendAdd"]
                   [] op = "Get" -> [r1 EXCEPT !.pc = "done"]
                   [] OTHER -> [r1 EXCEPT !.pc = "done", !.v = NoElem]
       IN /\ th' = [th EXCEPT ![t] = r2]
          /\ container' = IF miss /\ th[t].ok /\ container[th[t].key] = th[t].v
                          THEN Delete(container, th[t].key) ELSE container
          /\ elems' = Collect(container', th', elems)
    /\ UNCHANGED <<now, mtx, lastSet, opsLeft>>
    /\ UNCHANGED cleanerVars

\* timedmap.go:144-148, then the caller's use of the result:
\* 63-67 GetValue, 73-77 GetExpires, 84-85 Contains, 97-98 Extend
GetCheck(t) ==
    /\ ~panicked
    /\ th[t].pc = "GetCheck"
    /\ LET miss == ~th[t].ok \/ Expired(now, elems[th[t].v].expires)
           op == th[t].op
           r0 == IF th[t].ok
                 THEN [th[t] EXCEPT !.tnow = now, !.texp = elems[th[t].v].expires]
                 ELSE th[t]
           r1 == IF miss THEN [r0 EXCEPT !.ok = FALSE, !.v = NoElem] ELSE r0
           r2 == CASE op = "GetValue" /\ ~miss ->
                        [r1 EXCEPT !.pc = "done", !.rval = elems[th[t].v].Value,
                                   !.v = NoElem]
                   [] op = "GetExpires" /\ ~miss -> [r1 EXCEPT !.pc = "ExpiryTime"]
                   [] op = "Extend" /\ ~miss -> [r1 EXCEPT !.pc = "ExtendAdd"]
                   [] op = "Get" -> [r1 EXCEPT !.pc = "done"]
                   [] OTHER -> [r1 EXCEPT !.pc = "done", !.v = NoElem]
       IN /\ th' = [th EXCEPT ![t] = r2]
          /\ elems' = Collect(container, th', elems)
    /\ UNCHANGED <<now, container, mtx, lastSet, opsLeft>>
    /\ UNCHANGED cleanerVars

\* timedmap.go:75, 29-36  v.ExpiryTime(): a second atomic load
ExpiryTime(t) ==
    /\ ~panicked
    /\ th[t].pc = "ExpiryTime"
    /\ th' = [th EXCEPT ![t].pc = "done", ![t].rexp = elems[th[t].v].expires,
                        ![t].v = NoElem]
    /\ elems' = Collect(container, th', elems)
    /\ UNCHANGED <<now, container, mtx, lastSet, opsLeft>>
    /\ UNCHANGED cleanerVars

\* timedmap.go:99, but the add is a store of the expiry that Get loaded plus d
ExtendAdd_LoadStore(t) ==
    /\ ~panicked
    /\ th[t].pc = "ExtendAdd"
    /\ th' = [th EXCEPT ![t].pc = "done", ![t].v = NoElem]
    /\ elems' = Collect(container, th',
                   [elems EXCEPT ![th[t].v].expires = th[t].texp + th[t].dur,
                                 ![th[t].v].ext = TRUE])
    /\ lastSet' = IF container[th[t].key] = th[t].v
                  THEN [lastSet EXCEPT ![th[t].key].sum = @ + th[t].dur]
                  ELSE lastSet
    /\ UNCHANGED <<now, container, mtx, opsLeft>>
    /\ UNCHANGED cleanerVars

\* timedmap.go:99  atomic.AddInt64(&v.expires, int64(d)), outside the lock;
\* Extend returns true
ExtendAdd(t) ==
    /\ ~panicked
    /\ th[t].pc = "ExtendAdd"
    /\ th' = [th EXCEPT ![t].pc = "done", ![t].v = NoElem]
    /\ elems' = Collect(container, th',
                   [elems EXCEPT ![th[t].v].expires = AtomicAdd(@, th[t].dur),
                                 ![th[t].v].ext = TRUE])
    /\ lastSet' = IF container[th[t].key] = th[t].v
                  THEN [lastSet EXCEPT ![th[t].key].sum = @ + th[t].dur]
                  ELSE lastSet
    /\ UNCHANGED <<now, container, mtx, opsLeft>>
    /\ UNCHANGED cleanerVars

\* timedmap.go:124-128  Lock; now := time.Now().UnixNano(); range starts
\* (r: the caller's state when it calls)
CleanupLock(t, r) ==
    /\ CanLock(mtx)
    /\ mtx' = t
    /\ th' = [th EXCEPT ![t] = [r EXCEPT
                                   !.pc = "CleanupScan", !.op = "Cleanup", !.cnow = now,
                                   !.del = {},
                                   !.scan = {k \in Keys : container[k] # NoElem}]]
    /\ elems' = Collect(container, th', elems)
    /\ UNCHANGED <<now, container, lastSet>>

\* a client calls Cleanup itself
Cleanup(t) ==
    /\ CanCall(t)
    /\ CleanupLock(t, Fresh)
    /\ opsLeft' = opsLeft - 1
    /\ UNCHANGED cleanerVars

\* timedmap.go:130-134  one iteration of the range, in any order
CleanupScan(t) ==
    /\ ~panicked
    /\ th[t].pc = "CleanupScan"
    /\ \E k \in th[t].scan :
          LET gone == CleanupExpired(th[t].cnow, elems[container[k]].expires)
              t1 == [th EXCEPT ![t].scan = @ \ {k},
                                 ![t].del = IF gone THEN @ \cup {k} ELSE @]
          IN /\ container' = IF gone THEN Delete(container, k) ELSE container
             /\ th' = IF gone THEN MarkDirty(t1, t, {k}) ELSE t1
             /\ lastSet' = IF gone THEN [lastSet EXCEPT ![k] = NoSet] ELSE lastSet
             /\ elems' = Collect(container', th', elems)
    /\ UNCHANGED <<now, mtx, opsLeft>>
    /\ UNCHANGED cleanerVars

\* timedmap.go:125, 135  the deferred Unlock; Cleanup returns
CleanupUnlock(t) ==
    /\ ~panicked
    /\ th[t].pc = "CleanupScan"
    /\ th[t].scan = {}
    /\ mtx' = None
    /\ th' = [th EXCEPT ![t] = IF t \in Loops
                                THEN [@ EXCEPT !.pc = "next", !.op = None,
                                               !.cnow = ZeroTime, !.del = {}]
                                ELSE [@ EXCEPT !.pc = "done"]]
    /\ UNCHANGED <<now, container, elems, lastSet, opsLeft>>
    /\ UNCHANGED cleanerVars

MapStep(t) ==
    \/ Set(t) \/ Remove(t) \/ Flush(t) \/ Size(t)
    \/ GetLookup(t) \/ GetCheck(t) \/ ExpiryTime(t) \/ ExtendAdd(t)
    \/ Cleanup(t) \/ CleanupScan(t) \/ CleanupUnlock(t)

\* the map used by concurrent clients, with no Cleaner
Next == Tick \/ \E t \in Clients : MapStep(t)

Spec == Init /\ [][Next]_vars


\* ---------------------------------------------------------------- Cleaner
\* part_001 is cleaner.go.  tickC is the number of ticks in the ticker's
\* channel (time.Ticker buffers one), stopChan the stop channel, onTickQ the
\* registry, qMutex its lock.  A loop goroutine g keeps in th[g]: rng, the
\* slice its range statement iterates; log, the callbacks it has called in
\* this round (ghost); seen, the registry when it received the tick (ghost);
\* tick, the time at which it received the tick (ghost); spun, whether it has
\* received from stopChan (ghost).

\* sync.Mutex
CanLockQ_Always(q) == TRUE
CanLockQ(q) == q = None

InRound(g) == th[g].pc \in {"next", "CleanupScan"}

\* part_001:45-52  AddCallback / AddCleanable(tm): Lock; append; Unlock
AddCallback ==
    /\ ~panicked
    /\ CanLockQ(qMutex)
    /\ Len(onTickQ) < MaxCallbacks
    /\ \E cb \in Callbacks : onTickQ' = Append(onTickQ, cb)
    /\ UNCHANGED <<tickC, tickerStopped, stopChan, qMutex, panicked, stops>>
    /\ UNCHANGED mapVars

\* part_001:54-55  Start(): go func() { for { select ... } }; every call
\* starts one more goroutine
Start ==
    /\ ~panicked
    /\ \E g \in Loops :
          /\ th[g].pc = "none"
          /\ g = "g1" \/ th["g1"].pc # "none"
          /\ th' = [th EXCEPT ![g].pc = "select"]
    /\ UNCHANGED <<now, container, elems, mtx, lastSet, opsLeft>>
    /\ UNCHANGED cleanerVars

\* part_001:71-74  Stop(): c.ticker.Stop(); close(c.stopChan).  Closing a
\* closed channel panics, which ends the program.
Stop ==
    /\ ~panicked
    /\ stops < MaxStops
    /\ stops' = stops + 1
    /\ tickerStopped' = TRUE
    /\ IF stopChan = "closed"
       THEN panicked' = TRUE /\ UNCHANGED stopChan
       ELSE stopChan' = "closed" /\ UNCHANGED panicked
    /\ UNCHANGED <<tickC, onTickQ, qMutex>>
    /\ UNCHANGED mapVars

\* time.Ticker: sends a tick on its channel, unless it is stopped; a tick
\* that finds the buffer full is dropped
TickerFire ==
    /\ ~panicked
    /\ ~tickerStopped
    /\ tickC = 0
    /\ tickC' = 1
    /\ UNCHANGED <<tickerStopped, stopChan, onTickQ, qMutex, panicked, stops>>
    /\ UNCHANGED mapVars

\* part_001:57-58  select: case <-c.ticker.Chan()
LoopRecvTick(g) ==
    /\ ~panicked
    /\ th[g].pc = "select"
    /\ tickC > 0
    /\ tickC' = tickC - 1
    /\ th' = [th EXCEPT ![g].pc = "lock", ![g].tick = now, ![g].seen = onTickQ]
    /\ UNCHANGED <<tickerStopped, stopChan, onTickQ, qMutex, panicked, stops>>
    /\ UNCHANGED <<now, container, elems, mtx, lastSet, opsLeft>>

\* part_001:64-65  select: case <-c.stopChan: break.  The break leaves the
\* select statement, not the for loop: the goroutine selects again.
LoopRecvStop(g) ==
    /\ ~panicked
    /\ th[g].pc = "select"
    /\ stopChan = "closed"
    /\ th' = [th EXCEPT ![g].pc = "select", ![g].spun = TRUE]
    /\ UNCHANGED <<now, container, elems, mtx, lastSet, opsLeft>>
    /\ UNCHANGED cleanerVars

\* part_001:59-60  c.qMutex.Lock(); the range statement takes c.onTickQ
LoopLock(g) ==
    /\ ~panicked
    /\ th[g].pc = "lock"
    /\ CanLockQ(qMutex)
    /\ qMutex' = g
    /\ th' = [th EXCEPT ![g].pc = "next", ![g].rng = onTickQ, ![g].log = <<>>]
    /\ UNCHANGED <<tickC, tickerStopped, stopChan, onTickQ, panicked, stops>>
    /\ UNCHANGED <<now, container, elems, mtx, lastSet, opsLeft>>

\* part_001:60-62  the next fn() of the range: tm.Cleanup ...
LoopCallCleanup(g) ==
    /\ ~panicked
    /\ th[g].pc = "next"
    /\ Len(th[g].log) < Len(th[g].rng)
    /\ th[g].rng[Len(th[g].log) + 1] = "Cleanup"
    /\ CleanupLock(g, [th[g] EXCEPT !.log = Append(@, "Cleanup")])
    /\ UNCHANGED opsLeft
    /\ UNCHANGED cleanerVars

\* ... or another callback, which does not touch the map or the Cleaner
LoopCallFn(g) ==
    /\ ~panicked
    /\ th[g].pc = "next"
    /\ Len(th[g].log) < Len(th[g].rng)
    /\ th[g].rng[Len(th[g].log) + 1] = "fn"
    /\ th' = [th EXCEPT ![g].log = Append(@, "fn")]
    /\ UNCHANGED <<now, container, elems, mtx, lastSet, opsLeft>>
    /\ UNCHANGED cleanerVars

\* part_001:63  c.qMutex.Unlock(); back to the select
LoopUnlock(g) ==
    /\ ~panicked
    /\ th[g].pc = "next"
    /\ Len(th[g].log) >= Len(th[g].rng)
    /\ qMutex' = None
    /\ th' = [th EXCEPT ![g] = [@ EXCEPT !.pc = "select", !.rng = <<>>, !.log = <<>>,
                                         !.seen = <<>>, !.tick = ZeroTime]]
    /\ UNCHANGED <<tickC, tickerStopped, stopChan, onTickQ, panicked, stops>>
    /\ UNCHANGED <<now, container, elems, mtx, lastSet, opsLeft>>

\* the loop of one goroutine, but for the scan of a map that holds entries
LoopStep(g) ==
    \/ LoopRecvTick(g) \/ LoopRecvStop(g) \/ LoopLock(g)
    \/ LoopCallCleanup(g) \/ LoopCallFn(g) \/ LoopUnlock(g)
    \/ CleanupUnlock(g)

\* the Cleaner with its loop goroutines (Start may be called twice), the
\* registered map empty and the clock at rest
NextCleaner ==
    \/ AddCallback \/ Start \/ Stop \/ TickerFire
    \/ \E g \in Loops : LoopStep(g)

SpecCleaner == Init /\ [][NextCleaner]_vars

\* a client that only sets and extends the entry of one key
Extend(t) == GetLookupOf(t, {"Extend"}, {"a"})
ClientStep(t) == SetOf(t, {"a"}, {1}) \/ Extend(t) \/ GetCheck(t) \/ ExtendAdd(t)
Writer == "c1"
Sweeper == "g1"

\* Start is called once
StartOnce == th[Sweeper].pc = "none" /\ Start

\* the Cleaner, started once, sweeping a map that a client writes to
NextSweep ==
    \/ Tick \/ AddCallback \/ StartOnce \/ Stop \/ TickerFire
    \/ LoopStep(Sweeper) \/ CleanupScan(Sweeper)
    \/ ClientStep(Writer)

\* Go schedules every runnable goroutine and the ticker keeps firing: the loop
\* goroutine, a client inside a call and the ticker each take their next step
SpecSweep ==
    /\ InitWith(MaxCleanerOps)
    /\ [][NextSweep]_vars
    /\ WF_vars(LoopStep(Sweeper) \/ CleanupScan(Sweeper))
    /\ WF_vars(GetCheck(Writer) \/ ExtendAdd(Writer))
    /\ WF_vars(TickerFire)

\* ------------------------------------- registration from inside a callback
\* A callback is any func(): "reg" is one that registers a callback with the
\* Cleaner that calls it.  The call of AddCallback and its locked section are
\* two steps here, since the caller may have to wait for qMutex.
CallbacksReg == Callbacks \cup {"reg"}
Registering == {u \in Threads : th[u].pc = "AddCallback"}

\* part_001:45  a goroutine calls c.AddCallback(...)
CallAddCallback(t) ==
    /\ ~panicked
    /\ t \in Clients
    /\ th[t].pc = "done"
    /\ Len(onTickQ) + Cardinality(Registering \cap Clients) < MaxCallbacks
    /\ th' = [th EXCEPT ![t] = [Fresh EXCEPT !.pc = "AddCallback", !.op = "AddCallback"]]
    /\ UNCHANGED <<now, container, elems, mtx, lastSet, opsLeft>>
    /\ UNCHANGED cleanerVars

\* part_001:46-48  c.qMutex.Lock(); append; c.qMutex.Unlock(); the call
\* returns, to the round if a callback made it
AddCallbackOf(t) ==
    /\ ~panicked
    /\ th[t].pc = "AddCallback"
    /\ CanLockQ(qMutex)
    /\ \E cb \in CallbacksReg : onTickQ' = Append(onTickQ, cb)
    /\ th' = [th EXCEPT ![t].pc = IF t \in Loops THEN "next" ELSE "done"]
    /\ UNCHANGED <<tickC, tickerStopped, stopChan, qMutex, panicked, stops>>
    /\ UNCHANGED <<now, container, elems, mtx, lastSet, opsLeft>>

\* part_001:60-62  the next fn() of the range is a callback that calls
\* c.AddCallback; the round still holds qMutex
LoopCallReg(g) ==
    /\ ~panicked
    /\ th[g].pc = "next"
    /\ Len(th[g].log) < Len(th[g].rng)
    /\ th[g].rng[Len(th[g].log) + 1] = "reg"
    /\ th' = [th EXCEPT ![g].log = Append(@, "reg"), ![g].pc = "AddCallback"]
    /\ UNCHANGED <<now, container, elems, mtx, lastSet, opsLeft>>
    /\ UNCHANGED cleanerVars

\* the Cleaner, started once, with goroutines that register callbacks, some
\* of which register callbacks themselves
NextRegister ==
    \/ \E t \in Clients : CallAddCallback(t)
    \/ \E t \in Threads : AddCallbackOf(t)
    \/ StartOnce \/ Stop \/ TickerFire
    \/ LoopStep(Sweeper) \/ LoopCallReg(Sweeper)

SpecRegister == Init /\ [][NextRegister]_vars

\* ------------------------------------------- Cleaner without registry lock
\* part_000:228-294 is a second cleaner.go, whose Cleaner has no qMutex:
\* AddCallback appends to c.onTickQ and the loop ranges over it with no lock.

\* part_000:269-271  c.onTickQ = append(c.onTickQ, onTicks...): the load of
\* the slice ...
AddCallbackLoad(t) ==
    /\ ~panicked
    /\ t \in Clients
    /\ th[t].pc = "done"
    /\ Len(onTickQ) < MaxCallbacks
    /\ th' = [th EXCEPT ![t] = [Fresh EXCEPT !.pc = "append", !.op = "AddCallback",
                                             !.rng = onTickQ]]
    /\ UNCHANGED <<now, container, elems, mtx, lastSet, opsLeft>>
    /\ UNCHANGED cleanerVars

\* ... and the store of the slice that append returns
AddCallbackStore(t) ==
    /\ ~panicked
    /\ th[t].pc = "append"
    /\ \E cb \in Callbacks : onTickQ' = Append(th[t].rng, cb)
    /\ th' = [th EXCEPT ![t] = [@ EXCEPT !.pc = "done", !.rng = <<>>]]
    /\ UNCHANGED <<tickC, tickerStopped, stopChan, qMutex, panicked, stops>>
    /\ UNCHANGED <<now, container, elems, mtx, lastSet, opsLeft>>

\* part_000:278  for _, fn := range c.onTickQ: the range statement takes the
\* slice, with no lock (pc "lock": the tick is received, the range not begun)
LoopRange(g) ==
    /\ ~panicked
    /\ th[g].pc = "lock"
    /\ th' = [th EXCEPT ![g].pc = "next", ![g].rng = onTickQ, ![g].log = <<>>]
    /\ UNCHANGED <<now, container, elems, mtx, lastSet, opsLeft>>
    /\ UNCHANGED cleanerVars

\* part_000:278-280  the range is over; back to the select
LoopReturn(g) ==
    /\ ~panicked
    /\ th[g].pc = "next"
    /\ Len(th[g].log) >= Len(th[g].rng)
    /\ th' = [th EXCEPT ![g] = [@ EXCEPT !.pc = "select", !.rng = <<>>, !.log = <<>>,
                                         !.seen = <<>>, !.tick = ZeroTime]]
    /\ UNCHANGED <<now, container, elems, mtx, lastSet, opsLeft>>
    /\ UNCHANGED cleanerVars

\* part_000:273-287  the loop of one goroutine
LoopStepNoLock(g) ==
    \/ LoopRecvTick(g) \/ LoopRecvStop(g) \/ LoopRange(g)
    \/ LoopCallCleanup(g) \/ LoopCallFn(g) \/ LoopReturn(g)
    \/ CleanupUnlock(g)

\* the Cleaner of part_000 with its loop goroutines and two goroutines that
\* register callbacks
NextNoLock ==
    \/ \E t \in Clients : AddCallbackLoad(t) \/ AddCallbackStore(t)
    \/ Start \/ Stop \/ TickerFire
    \/ \E g \in Loops : LoopStepNoLock(g)

SpecNoLock == Init /\ [][NextNoLock]_vars

\* writers that set keys and readers, with no Remove, Flush or Cleanup
NextWriters ==
    \/ Tick
    \/ \E t \in Clients :
          \/ Set(t) \/ Size(t)
          \/ GetLookup(t) \/ GetCheck(t) \/ ExpiryTime(t) \/ ExtendAdd(t)

SpecWriters == Init /\ [][NextWriters]_vars

\* ------------------------------------------------------------------ claims
IsGetOp(op) == op \in GetOps
\* thread t has the result of a call of Get (directly or through a wrapper)
Returned(t) == IsGetOp(th[t].op) /\ th[t].pc # "GetCheck"
\* the Get of thread t found an entry and compared its expiry with the clock
Compared(t) == th[t].tnow # ZeroTime

\* C1 as stated: a read reports an entry present only if now < expiresAt
\* (an entry is absent at the instant now = expiresAt).
C1_PresentOnlyBefore ==
    \A t \in Threads : Returned(t) /\ th[t].ok => th[t].tnow < th[t].texp

\* C1 amended: Get, GetValue, GetExpires, Contains (and Extend's lookup) report
\* a stored entry present exactly when now <= expiresAt at the read, whether
\* or not Cleanup ever ran; an entry with now > expiresAt is reported absent
\* (found = false, nil value, zero time).
C1_LazyExpiry ==
    \A t \in Threads : Returned(t) =>
        /\ th[t].ok => Compared(t) /\ th[t].tnow <= th[t].texp
        /\ ~th[t].ok /\ Compared(t) => th[t].tnow > th[t].texp
        /\ ~th[t].ok => th[t].v = NoElem /\ th[t].rval = NilVal /\ th[t].rexp = ZeroTime

\* a Contains reported absent an expired entry that is still stored
C1_Witness ==
    \E t \in Clients :
        /\ th[t].pc = "done" /\ th[t].op = "Contains" /\ ~th[t].ok
        /\ th[t].tnow > th[t].texp
        /\ container[th[t].key] # NoElem
        /\ elems[container[th[t].key]].expires = th[t].texp

\* thread t takes the step that decides its Get
Decides(t) == th[t].pc = "GetCheck" /\ th'[t].pc # "GetCheck"

\* C2: once Set(k, v, ttl) has completed, a Get(k) that runs before the entry's
\* expiry instant, with no Set, Remove, Flush or Cleanup of k in between,
\* returns the entry with value v and true, whatever else runs concurrently.
C2_ReadAfterWrite ==
    [][\A t \in Threads :
          Decides(t) /\ ~th[t].dirty /\ th[t].key \in Keys /\ lastSet[th[t].key] # NoSet =>
             /\ container[th[t].key] # NoElem
             /\ now < elems[container[th[t].key]].expires =>
                   /\ th'[t].ok
                   /\ th[t].v = container[th[t].key]
                   /\ elems[th[t].v].Value = lastSet[th[t].key].val]_vars

\* a Get returned the value of the last Set while the other client was in a call
C2_Witness ==
    \E t \in Clients, u \in Clients :
        /\ th[t].pc = "done" /\ th[t].op = "Get" /\ th[t].ok /\ ~th[t].dirty
        /\ lastSet[th[t].key] # NoSet
        /\ th[t].v = container[th[t].key]
        /\ elems[th[t].v].Value = lastSet[th[t].key].val
        /\ th[t].tnow < th[t].texp
        /\ u # t /\ th[u].pc # "done"

\* the entries the map holds, as a reader sees them
Entries == [k \in Keys |-> IF container[k] = NoElem THEN nilElement
                           ELSE elems[container[k]]]

\* C3: Extend(k, d) on a key with a live entry returns true and changes that
\* entry's expiresAt by exactly d, its value unchanged; on a missing or expired
\* key it returns false and changes no entry and not the set of stored keys.
\* (live: found by Get, that is stored with now <= expiresAt.)
C3_Extend ==
    [][\A t \in Threads :
          /\ (Decides(t) /\ th[t].op = "Extend") =>
                /\ th'[t].ok <=> (th[t].v # NoElem /\ now <= elems[th[t].v].expires)
                /\ th'[t].pc = (IF th'[t].ok THEN "ExtendAdd" ELSE "done")
                /\ container' = container
                /\ Entries' = Entries
          /\ (th[t].pc = "ExtendAdd" /\ th'[t].pc = "done") =>
                /\ th'[t].ok
                /\ container' = container
                /\ \A k \in Keys :
                      /\ container[k] # NoElem /\ container[k] # th[t].v =>
                            Entries'[k] = Entries[k]
                      /\ container[k] = th[t].v =>
                            /\ Entries'[k].expires = Entries[k].expires + th[t].dur
                            /\ Entries'[k].Value = Entries[k].Value]_vars

\* an Extend by -1 has returned true and the entry expires one earlier than set
C3_Witness ==
    \E t \in Clients :
        /\ th[t].pc = "done" /\ th[t].op = "Extend" /\ th[t].ok /\ th[t].dur = -1
        /\ lastSet[th[t].key] # NoSet
        /\ container[th[t].key] # NoElem
        /\ elems[container[th[t].key]].ext
        /\ elems[container[th[t].key]].expires = lastSet[th[t].key].exp - 1

\* C4: after Set(k, v2, ttl2) at time t the entry of k has value v2 and
\* expiresAt = t + ttl2, whatever entry k held before and whatever Extend was
\* applied to that earlier entry; GetExpires(k) then returns t + ttl2.
C4_SetOverwrites ==
    [][/\ \A k \in Keys : lastSet'[k] # NoSet =>
             /\ container'[k] # NoElem
             /\ Entries'[k].Value = lastSet'[k].val
             /\ ~Entries'[k].ext => Entries'[k].expires = lastSet'[k].exp
       /\ \A t \in Threads :
             /\ th[t].pc = "ExpiryTime" /\ th'[t].pc = "done"
             /\ ~th[t].dirty /\ container[th[t].key] = th[t].v /\ ~elems[th[t].v].ext
             => th'[t].rexp = lastSet[th[t].key].exp]_vars

\* GetExpires returned t + ttl2 for a key whose earlier entry a Set replaced
C4_Witness ==
    \E t \in Clients :
        /\ th[t].pc = "done" /\ th[t].op = "GetExpires" /\ th[t].ok /\ ~th[t].dirty
        /\ lastSet[th[t].key] # NoSet
        /\ lastSet[th[t].key].over
        /\ th[t].rexp = lastSet[th[t].key].exp

\* thread t takes the step in which its Cleanup returns
CleanupReturns(t) == th[t].pc = "CleanupScan" /\ th'[t].pc # "CleanupScan"

\* C5 as stated: when Cleanup returns, no entry with expiresAt <= the time
\* sampled at the start of the scan is stored (entries that an Extend changed
\* meanwhile aside).
C5_DeletesAtOrBefore ==
    [][\A t \in Threads : CleanupReturns(t) =>
          \A k \in Keys : container[k] # NoElem /\ ~Entries[k].ext =>
             Entries[k].expires > th[t].cnow]_vars

\* C5 amended: Cleanup samples the time once and deletes exactly the stored
\* entries whose expiresAt, as the scan reads it, is strictly before that time
\* (an entry with expiresAt = now is kept); when it returns, no stored entry
\* that no Extend changed has expiresAt < now, and Size no longer counts the
\* deleted ones.
C5_Cleanup ==
    [][\A t \in Threads :
          /\ (th[t].pc = "CleanupScan" /\ th'[t].pc = "CleanupScan" /\ th'[t] # th[t]) =>
                /\ th'[t].cnow = th[t].cnow
                /\ \A k \in Keys :
                      IF k \in th[t].scan \ th'[t].scan
                      THEN (container'[k] = NoElem) <=>
                              (Entries[k].expires < th[t].cnow)
                      ELSE container'[k] = container[k]
                /\ MapLen(container') = MapLen(container) -
                      Cardinality({k \in Keys : container[k] # NoElem /\
                                                container'[k] = NoElem})
          /\ CleanupReturns(t) =>
                /\ th[t].scan = {}
                /\ container' = container
                /\ \A k \in Keys : container[k] # NoElem /\ ~Entries[k].ext =>
                      Entries[k].expires >= th[t].cnow]_vars

\* a Cleanup has returned that sampled its time once, deleted an entry and kept
\* one that expires exactly at the sampled time
C5_Witness ==
    \E t \in Clients, k \in Keys :
        /\ th[t].pc = "done" /\ th[t].op = "Cleanup" /\ th[t].del # {}
        /\ container[k] # NoElem
        /\ ~elems[container[k]].ext
        /\ elems[container[k]].expires = th[t].cnow
        /\ now > th[t].cnow


\* the map is registered with a Cleaner that has been started and not stopped
Active ==
    /\ \E i \in 1..Len(onTickQ) : onTickQ[i] = "Cleanup"
    /\ th[Sweeper].pc # "none"
    /\ stopChan = "open" /\ ~tickerStopped /\ ~panicked
\* key k holds an entry that has expired
ExpiredStored(k) == container[k] # NoElem /\ now > elems[container[k]].expires

\* C6: with the map registered with a started, not stopped Cleaner, an entry
\* that has expired does not stay stored for ever (unless it is set again or
\* extended), though nothing reads it; and when the round of a tick received
\* at time T ends, no stored entry that no Extend changed has expiresAt < T:
\* Size no longer counts the entries that had expired before the tick.
C6_ActiveExpiry ==
    /\ \A k \in Keys : []<>~(ExpiredStored(k) /\ Active)
    /\ [][\A g \in Loops :
             /\ th[g].pc = "next" /\ th'[g].pc = "select"
             /\ \E i \in 1..Len(th[g].rng) : th[g].rng[i] = "Cleanup"
             => \A k \in Keys : container[k] # NoElem /\ ~Entries[k].ext =>
                   Entries[k].expires >= th[g].tick]_vars

\* the loop's Cleanup, called for a tick received after an entry's expiry, has
\* deleted the entry, and the map is empty
C6_Witness ==
    /\ Active
    /\ th[Sweeper].pc = "CleanupScan" /\ th[Sweeper].scan = {}
    /\ th[Sweeper].del # {}
    /\ th[Sweeper].tick > 0
    /\ MapLen(container) = 0


\* C7 as stated: a loop goroutine that has received the stop signal has left
\* its loop for good (it is in the terminal state, not selecting again).
C7_LoopExits ==
    \A g \in Loops : th[g].spun => th[g].pc = "exited"

\* C8 as stated: once Stop has returned, no loop goroutine takes a tick from
\* the ticker's channel to start a round of callbacks.
C8_NoRoundAfterStop ==
    [][\A g \in Loops :
          th[g].pc = "select" /\ th'[g].pc = "lock" => stopChan = "open"]_vars

\* C9 as stated: no call of Stop crashes the program, a second one included.
C9_StopTwiceIsSafe == ~panicked

IsPrefix(p, q) == Len(p) <= Len(q) /\ p = SubSeq(q, 1, Len(p))

\* C10: a round calls the callbacks of the registry, those registered before
\* its tick included, each once and in the order of registration, the next one
\* only when the one before has returned; the rounds of two ticks never
\* overlap, also when Start was called twice.
C10_Rounds ==
    [][/\ \A g \in Loops : InRound(g)' =>
             /\ qMutex' = g
             /\ th'[g].rng = onTickQ'
             /\ IsPrefix(th'[g].seen, th'[g].rng)
             /\ IsPrefix(th'[g].log, th'[g].rng)
             /\ \A h \in Loops : InRound(h)' => h = g
       /\ \A g \in Loops :
             /\ Len(th'[g].log) > Len(th[g].log) =>
                   th[g].pc = "next" /\ Len(th'[g].log) = Len(th[g].log) + 1
             /\ (th[g].pc = "next" /\ th'[g].pc = "select") =>
                   th[g].log = onTickQ]_vars

\* a round has called two different callbacks in the order of registration
\* while a second loop goroutine waits with a tick of its own
C10_Witness ==
    \E g \in Loops, h \in Loops :
        /\ th[g].pc = "next" /\ Len(th[g].log) = 2 /\ th[g].log = onTickQ
        /\ th[g].log[1] # th[g].log[2]
        /\ Len(th[g].seen) = 1
        /\ th[h].pc = "lock"

\* the keys some Set has written
Written == {k \in Keys : lastSet[k] # NoSet}

\* C11: with writers that call Set and readers, and no Remove, Flush or
\* Cleanup, the map stores exactly the keys written, and every Size returns
\* their number, the entries that have expired and were not swept included.
C11_Size ==
    [][/\ {k \in Keys : container'[k] # NoElem} = Written'
       /\ \A t \in Clients : Size(t) =>
             th'[t].rsize = Cardinality(Written)]_vars

\* Size returned 2 after key "b" was set at time 1, when the entry of key "a",
\* set at time 0 to expire at once, had expired
C11_Witness ==
    \E t \in Clients :
        /\ th[t].pc = "done" /\ th[t].op = "Size" /\ th[t].rsize = 2
        /\ lastSet["a"] # NoSet /\ lastSet["a"].exp = 0 /\ ~Entries["a"].ext
        /\ lastSet["b"] # NoSet /\ lastSet["b"].exp = 1

\* C12: Remove(k) deletes the entry of k, live or expired, and does nothing
\* (and does not fail) when k holds none; the entries of the other keys stay
\* as they are; from then until a Set(k) completes k is not stored and a
\* Get(k) returns not-found.
C12_Remove ==
    [][\A t \in Clients :
          /\ Remove(t) =>
                /\ th'[t].key \in Keys
                /\ container'[th'[t].key] = NoElem
                /\ lastSet'[th'[t].key] = NoSet
                /\ ~panicked'
                /\ \A j \in Keys \ {th'[t].key} :
                      container'[j] = container[j] /\ Entries'[j] = Entries[j]
          /\ \A k \in Keys : lastSet[k] = NoSet => container[k] = NoElem
          /\ Decides(t) /\ ~th[t].dirty /\ th[t].key \in Keys /\ lastSet[th[t].key] = NoSet
                => ~th'[t].ok /\ th'[t].v = NoElem]_vars

\* a Remove deleted the entry a key held, and a Get of that key that followed
\* it found no entry
C12_Witness ==
    \E t \in Clients, u \in Clients, k \in Keys :
        /\ th[u].pc = "done" /\ th[u].op = "Remove" /\ th[u].key = k /\ th[u].del = {k}
        /\ th[t].pc = "done" /\ th[t].op = "Get" /\ th[t].key = k
        /\ ~th[t].ok /\ ~th[t].dirty /\ ~Compared(t)
        /\ container[k] = NoElem /\ lastSet[k] = NoSet
        /\ u # t

\* C13: Flush deletes every entry, live or expired, and on an empty map changes
\* nothing; from then until a Set completes no key is stored, Size returns 0
\* and a Get of any key returns not-found.
C13_Flush ==
    [][\A t \in Clients :
          /\ Flush(t) =>
                /\ \A k \in Keys : container'[k] = NoElem /\ lastSet'[k] = NoSet
                /\ ~panicked'
                /\ MapLen(container) = 0 => container' = container /\ Entries' = Entries
          /\ (\A k \in Keys : lastSet[k] = NoSet) => container = EmptyContainer
          /\ Size(t) /\ (\A k \in Keys : lastSet[k] = NoSet) => th'[t].rsize = 0
          /\ Decides(t) /\ ~th[t].dirty /\ (\A k \in Keys : lastSet[k] = NoSet)
                => ~th'[t].ok]_vars

\* a Flush deleted the entries the map held, and a Size called at a later time
\* returned 0
C13_Witness ==
    \E t \in Clients, u \in Clients :
        /\ th[u].pc = "done" /\ th[u].op = "Flush" /\ th[u].del # {}
        /\ th[t].pc = "done" /\ th[t].op = "Size" /\ th[t].rsize = 0
        /\ th[t].cnow > th[u].cnow
        /\ container = EmptyContainer

\* the reads
ReadOps == {"Get", "GetValue", "GetExpires", "Contains"}
\* thread t takes a step of a read
ReadStep(t) ==
    \/ GetLookupOf(t, ReadOps, Keys)
    \/ th[t].op \in ReadOps /\ (GetCheck(t) \/ ExpiryTime(t))

\* C14: no step of Get, GetValue, GetExpires or Contains changes the stored
\* keys, an entry's value or an entry's expiresAt, also when the read finds
\* its entry expired: the entry stays stored and Size counts it as before.
C14_ReadsPure ==
    [][\A t \in Clients : ReadStep(t) =>
          /\ container' = container
          /\ Entries' = Entries
          /\ MapLen(container') = MapLen(container)
          /\ lastSet' = lastSet]_vars

\* a GetValue found its entry expired and returned nil, and the entry is
\* stored as it was
C14_Witness ==
    \E t \in Clients :
        /\ th[t].pc = "done" /\ th[t].op = "GetValue" /\ ~th[t].ok /\ ~th[t].dirty
        /\ th[t].rval = NilVal
        /\ Compared(t) /\ th[t].tnow > th[t].texp
        /\ container[th[t].key] # NoElem
        /\ Entries[th[t].key].expires = th[t].texp
        /\ Entries[th[t].key].Value = lastSet[th[t].key].val
        /\ MapLen(container) = 1

\* C15: while the entry a Set stored for a key stays stored (no Set, Remove,
\* Flush or Cleanup of the key), its expiresAt is the expiresAt it was set to
\* plus the sum of the deltas of the calls of Extend that returned true for
\* it, however those calls interleave: no delta is lost or applied twice.
C15_ExtendDeltas ==
    \A k \in Keys : container[k] # NoElem /\ lastSet[k] # NoSet =>
        Entries[k].expires = lastSet[k].exp + lastSet[k].sum

\* two calls of Extend by 1 on the same key, each of which found the expiry
\* as it was set, have both returned true, and the entry expires 2 later
C15_Witness ==
    \E k \in Keys :
        /\ \A t \in Clients :
              /\ th[t].pc = "done" /\ th[t].op = "Extend" /\ th[t].key = k
              /\ th[t].ok /\ th[t].dur = 1 /\ ~th[t].dirty
              /\ th[t].texp = lastSet[k].exp
        /\ container[k] # NoElem
        /\ lastSet[k].sum = 2
        /\ Entries[k].expires = lastSet[k].exp + 2

\* C16: Cleanup, with the time it sampled, deletes a stored entry exactly when
\* Get's test at that time on the expiry the scan reads reports the entry
\* expired, and so exactly when a Get that compared the same expiry at the
\* same time has returned not-found: Cleanup never deletes an entry such a
\* read returns, and never keeps one such a read reports expired.
C16_SamePredicate ==
    [][\A c \in Threads, k \in Keys :
          th[c].pc = "CleanupScan" /\ k \in th[c].scan /\ k \notin th'[c].scan =>
             /\ (container'[k] = NoElem) <=> Expired(th[c].cnow, Entries[k].expires)
             /\ \A t \in Threads :
                   /\ Returned(t) /\ Compared(t) /\ th[t].key = k
                   /\ th[t].tnow = th[c].cnow /\ th[t].texp = Entries[k].expires
                   => (~th[t].ok <=> container'[k] = NoElem)]_vars

\* a Get reported a stored entry expired, and a Cleanup that sampled the same
\* time has deleted that entry
C16_Witness ==
    \E c \in Clients, t \in Clients :
        /\ th[c].op = "Cleanup" /\ th[c].pc = "done" /\ th[t].key \in th[c].del
        /\ th[t].pc = "done" /\ th[t].op = "Get" /\ ~th[t].ok /\ Compared(t)
        /\ th[t].tnow = th[c].cnow
        /\ th[t].tnow > th[t].texp

\* the scan of thread c has yet to read, with a plain load under the write
\* lock (timedmap.go:131), the expires field of the entry of key k
PlainRead(c, k) == th[c].pc = "CleanupScan" /\ k \in th[c].scan
\* the Extend of thread t has yet to add, atomically and outside the lock
\* (timedmap.go:99), to the expires field of Element e
AtomicWrite(t, e) == th[t].pc = "ExtendAdd" /\ th[t].v = e

\* C17 as stated: in no reachable state is one thread at a plain read of an
\* entry's expires field while another is at Extend's atomic add to the same
\* field, with nothing ordering the two.
C17_NoPlainAccessRace ==
    \A c \in Threads, t \in Threads, k \in Keys :
        ~(c # t /\ PlainRead(c, k) /\ AtomicWrite(t, container[k]))

\* key k holds an entry that a read at this instant returns
LiveStored(k) == container[k] # NoElem /\ ~Expired(now, Entries[k].expires)

\* C19 as stated: an entry that has expired (a read reports its key absent)
\* stays expired for as long as it is the key's entry; only a Set of the key,
\* which stores a new entry, makes a read report the key present again.
C19_ExpiryPermanent ==
    [][\A k \in Keys :
          ExpiredStored(k) /\ container'[k] = container[k] => ~LiveStored(k)']_vars

\* C18 as stated: two registrations never are inside AddCallback's update of
\* the registry at once; every registration extends the registry by its
\* callback and keeps the callbacks registered before (none is lost); and a
\* round calls, in order, the callbacks registered before its tick.
C18_RegistrationSafe ==
    [][/\ \A t \in Clients, u \in Clients :
             t # u => ~(th'[t].pc = "append" /\ th'[u].pc = "append")
       /\ onTickQ' # onTickQ =>
             IsPrefix(onTickQ, onTickQ') /\ Len(onTickQ') = Len(onTickQ) + 1
       /\ \A g \in Loops :
             th[g].pc = "lock" /\ th'[g].pc = "next" =>
                IsPrefix(th[g].seen, th'[g].rng)]_vars

\* C20 as stated: a call of AddCallback, one made from inside a running
\* callback included, never waits for a registry lock whose holder is itself
\* waiting for that lock: the holder runs on and releases it, so that the
\* call returns.
C20_NoDeadlock ==
    \A t \in Threads :
        th[t].pc = "AddCallback" /\ qMutex # None => th[qMutex].pc # "AddCallback"

====
